---- MODULE Spec2Model ----
(***************************************************************************)
(* State-machine model of the ingestion programs of the NIDS repository:   *)
(*   nids_backend.py        (live capture with simulated fallback)         *)
(*   live_nids.py           (live capture, classifier only)                *)
(*   process_pcap.py        (replay of capture files, directory watch)     *)
(*   generate_demo_data.py  (synthetic generator)                          *)
(* and of the readers of their files:                                     *)
(*   api.py, dashboard.py   (parse_alerts, parse_stats)                    *)
(* The persisted state is the alert log (alerts.log) and the statistics    *)
(* snapshot (nids_stats.txt); both are modelled by their text lines.       *)
(* Spec runs the four programs with frames processed whole;                *)
(* SpecWriteFaults adds writes that fail, SpecInterrupts adds Ctrl+C       *)
(* inside process_packet, SpecSteps runs nids_backend.process_packet one   *)
(* statement at a time, SpecWatch is the directory watch of process_pcap   *)
(* with the progress its loops make, SpecCalls applies the readers and the *)
(* feature extraction to inputs drawn from bounded sets.                   *)
(***************************************************************************)
EXTENDS Integers, Sequences, FiniteSets, TLC

VARIABLES
    prog,            \* which program this process runs
    pc,              \* position of the process
    mode,            \* nids_backend: 'live' or 'simulation' (sys.argv[1])
    HAS_SCAPY,       \* nids_backend: scapy import succeeded
    model,           \* nids_backend: global model is not None
    le_proto,        \* nids_backend: global le_proto is not None
    packet_count,
    normal_count,
    attack_count,
    protocol_stats,  \* nids_backend: defaultdict(int) keyed by PROTOCOL
    ip_stats,        \* nids_backend: defaultdict(int) keyed by source address
    alerts_log,      \* the file alerts.log: whether it exists, and its lines
    stats_file,      \* the file nids_stats.txt: whether it exists, and its lines
    stats_writes,    \* totals passed to update_stats by this process, in order
    pcap_dir,        \* process_pcap: capture files present in the watched directory
    processed_files, \* process_pcap: continuous_processing's set processed_files
    cur_file,        \* process_pcap: file being replayed, or "none"
    last,            \* the operation performed by the latest step and its inputs
    arg,             \* the call a reader or a pure function is given; in
                     \* SpecSteps the frame process_packet is working on
    result           \* what that call returned

vars == <<prog, pc, mode, HAS_SCAPY, model, le_proto, packet_count, normal_count,
          attack_count, protocol_stats, ip_stats, alerts_log, stats_file,
          stats_writes, pcap_dir, processed_files, cur_file, last, arg, result>>

(***************************************************************************)
(* Bounds of the model.                                                    *)
(***************************************************************************)
\* frames counted per process (or per capture file) before the source dries up
MaxPackets == 10
\* alert lines one process appends before the verdicts stay Normal
MaxAlerts == 1

(***************************************************************************)
(* Text helpers: numbers are written to the files in decimal.              *)
(***************************************************************************)
Digits == <<"0", "1", "2", "3", "4", "5", "6", "7", "8", "9">>

DigitSet == {Digits[i] : i \in 1..10}

RECURSIVE Str(_)
\* f"{n}" for a non-negative int: its decimal digits
Str(n) == IF n < 10 THEN <<Digits[n + 1]>> ELSE Str(n \div 10) \o <<Digits[(n % 10) + 1]>>

\* f"{'N/A'}": the placeholder the code uses for a missing port
NA == <<"N", "/", "A">>

\* str.upper() on the protocol names the programs produce
Upper(name) ==
    CASE name = "tcp" -> "TCP"
      [] name = "udp" -> "UDP"
      [] name = "icmp" -> "ICMP"
      [] name = "other" -> "OTHER"
      [] OTHER -> name

\* str.lower() on the protocol names of the simulated pool
Lower(name) ==
    CASE name = "TCP" -> "tcp"
      [] name = "UDP" -> "udp"
      [] name = "ICMP" -> "icmp"
      [] OTHER -> name

None == "None"

(***************************************************************************)
(* Frames delivered by the capture source (scapy packets).                 *)
(***************************************************************************)
\* l4 is the transport layer scapy dissected: "TCP", "UDP" or "none"
Frames ==
    { [id |-> "tcp500", has_ip |-> TRUE, proto |-> 6, src |-> "10.0.0.5",
       dst |-> "192.168.1.10", l4 |-> "TCP", sport |-> 443, dport |-> 80, len |-> 500],
      [id |-> "udp60", has_ip |-> TRUE, proto |-> 17, src |-> "192.168.1.10",
       dst |-> "10.0.0.5", l4 |-> "UDP", sport |-> 53, dport |-> 53, len |-> 60],
      [id |-> "icmp64", has_ip |-> TRUE, proto |-> 1, src |-> "10.0.0.5",
       dst |-> "192.168.1.10", l4 |-> "none", sport |-> 0, dport |-> 0, len |-> 64],
      [id |-> "gre100", has_ip |-> TRUE, proto |-> 47, src |-> "192.168.1.10",
       dst |-> "10.0.0.5", l4 |-> "none", sport |-> 0, dport |-> 0, len |-> 100],
      [id |-> "arp42", has_ip |-> FALSE, proto |-> 0, src |-> "", dst |-> "",
       l4 |-> "none", sport |-> 0, dport |-> 0, len |-> 42] }

\* process_packet() called with no packet (simulation mode)
NoPacket ==
    [id |-> "none", has_ip |-> FALSE, proto |-> 0, src |-> "", dst |-> "",
     l4 |-> "none", sport |-> 0, dport |-> 0, len |-> 0]

FrameById(i) == CHOOSE f \in Frames \cup {NoPacket} : f.id = i

\* le_proto.classes_: the protocol_type values of the NSL-KDD training set
Classes == {"icmp", "tcp", "udp"}

\* what model.predict does on one feature row: returns 0, returns 1, or raises
PredictOutcomes == {"0", "1", "raise"}

(***************************************************************************)
(* The simulated pools of nids_backend.process_packet and the demo         *)
(* generator, and the draws of them the model explores.                    *)
(***************************************************************************)
sample_ips == {"192.168.1.10", "10.0.0.5", "172.16.0.20", "203.0.113.45", "198.51.100.12"}

sample_ports == {80, 443, 22, 53, 3389, 8080, 3000, 5000}

protocols == {"TCP", "UDP", "ICMP"}

\* random.randint(100, 5000)
SimSizeMin == 100

SimSizeMax == 5000

\* the sizes the model draws for random.randint(SimSizeMin, SimSizeMax)
SimSizes == {SimSizeMin, SimSizeMax}

\* the (packet_info, protocol, size) draws explored, each within the pools
SimDraws ==
    { [src_ip |-> "192.168.1.10", src_port |-> 80, dst_ip |-> "10.0.0.5",
       dst_port |-> 443, protocol |-> "TCP", size |-> SimSizeMin],
      [src_ip |-> "203.0.113.45", src_port |-> 53, dst_ip |-> "203.0.113.45",
       dst_port |-> 5000, protocol |-> "UDP", size |-> SimSizeMax],
      [src_ip |-> "198.51.100.12", src_port |-> 3389, dst_ip |-> "172.16.0.20",
       dst_port |-> 22, protocol |-> "ICMP", size |-> 2500] }

\* keys the two histograms can hold in the model
ProtoKeys == {"TCP", "UDP", "ICMP", "OTHER"}

IpKeys == sample_ips

(***************************************************************************)
(* Lines of alerts.log.                                                    *)
(***************************************************************************)
\* "=== NIDS Alert Log - Started <timestamp> ==="
BannerLine ==
    [kind |-> "banner", src_ip |-> "", src_port |-> <<>>, dst_ip |-> "",
     dst_port |-> <<>>, protocol |-> "", size |-> <<>>]

\* the empty line after the banner
BlankLine ==
    [kind |-> "blank", src_ip |-> "", src_port |-> <<>>, dst_ip |-> "",
     dst_port |-> <<>>, protocol |-> "", size |-> <<>>]

\* "[<ts>] [ALERT] Malicious Traffic Detected! Src: a:p -> Dst: a:p Protocol: P Size: n bytes"
AlertLine(packet_info, protocol_name, size) ==
    [kind |-> "alert", src_ip |-> packet_info.src_ip, src_port |-> packet_info.src_port,
     dst_ip |-> packet_info.dst_ip, dst_port |-> packet_info.dst_port,
     protocol |-> Upper(protocol_name), size |-> Str(size)]

Header == <<BannerLine, BlankLine>>

(***************************************************************************)
(* Lines of nids_stats.txt.                                                *)
(***************************************************************************)
\* the ratio formatted without the factor 100
PctOfOne(n, total) == (n * 100) \div total

\* n/total*100 formatted with :.2f, as hundredths of a percent (total > 0)
\* the exact quotient rounded to nearest, an exact tie to the even hundredth
Pct(n, total) ==
    LET q == (n * 10000) \div total
        r == (n * 10000) % total
    IN  IF 2 * r > total \/ (2 * r = total /\ q % 2 = 1) THEN q + 1 ELSE q

\* the text "d.dd" of a number of hundredths
PctText(h) == Str(h \div 100) \o <<".">> \o <<Digits[((h \div 10) % 10) + 1], Digits[(h % 10) + 1]>>

\* a line of the statistics file: its label, the text that follows the label
\* (a count, or the time of the update) and the text between "(" and "%)"
StatsLine(kind, n, pct) == [kind |-> kind, n |-> n, pct |-> pct]

\* strftime('%Y-%m-%d %H:%M:%S UTC'): some text that is not empty
Timestamp == <<"ts">>

\* the five lines update_stats writes when the division is guarded
StatsText(total, normal, attacks) ==
    << StatsLine("title", <<>>, <<>>),
       StatsLine("total", Str(total), <<>>),
       StatsLine("normal", Str(normal),
                 IF total > 0 THEN PctText(Pct(normal, total)) ELSE PctText(0)),
       StatsLine("attacks", Str(attacks),
                 IF total > 0 THEN PctText(Pct(attacks, total)) ELSE PctText(0)),
       StatsLine("updated", Timestamp, <<>>) >>

\* live_nids.update_stats divides without a guard: with total = 0 the two
\* lines written before the division are all that reach the file
StatsTextUnguarded(total, normal, attacks) ==
    IF total > 0 THEN StatsText(total, normal, attacks)
    ELSE << StatsLine("title", <<>>, <<>>), StatsLine("total", Str(total), <<>>) >>

(***************************************************************************)
(* File values.                                                            *)
(***************************************************************************)
Absent == [exists |-> FALSE, lines |-> <<>>]

File(lines) == [exists |-> TRUE, lines |-> lines]

\* an alert left in alerts.log by an earlier run
OldAlert ==
    AlertLine([src_ip |-> "172.16.0.20", src_port |-> Str(22), dst_ip |-> "10.0.0.5",
               dst_port |-> Str(8080)], "udp", 1200)

\* alerts.log as an earlier run of nids_backend left it
OldLog == File(Header \o <<OldAlert>>)

\* nids_stats.txt as an earlier run left it
OldStats == File(StatsText(50, 45, 5))

\* the record of the latest operation
Did(op, packet, pred, verdict) ==
    [op |-> op, packet |-> packet, pred |-> pred, verdict |-> verdict]

(***************************************************************************)
(* nids_backend.py                                                         *)
(***************************************************************************)
\* a slip in the cadence: off by one, a snapshot every 11 frames
FlushEveryEleventh == 10 + 1

\* the cadence of the periodic snapshot: packet_count % 10 == 0
FlushEvery == 10

\* update_stats(total, normal, attacks): rewrites nids_stats.txt
update_stats(total, normal, attacks) ==
    /\ stats_file' = File(StatsText(total, normal, attacks))
    /\ stats_writes' = Append(stats_writes, total)

\* the file content after log_alert: open(ALERTS_LOG, 'a') and one line written
log_alert(packet_info, protocol_name, size) ==
    File(alerts_log.lines \o <<AlertLine(packet_info, protocol_name, size)>>)

\* a slip in initialize_files: the log is opened with 'w' whether it exists or not
initialize_log_truncating == File(Header)

\* the file content after initialize_files' first branch
initialize_log == IF alerts_log.exists THEN alerts_log ELSE File(Header)

\* initialize_files(): each file is created only when it does not exist
initialize_files ==
    /\ alerts_log' = initialize_log
    /\ IF stats_file.exists
          THEN UNCHANGED <<stats_file, stats_writes>>
          ELSE update_stats(0, 0, 0)

\* proto_map.get with 'tcp' as the default
ProtoNameDefaultTcp(protocol_num) ==
    CASE protocol_num = 1 -> "icmp"
      [] protocol_num = 17 -> "udp"
      [] OTHER -> "tcp"

\* proto_map.get(protocol_num, 'other')
ProtoName(protocol_num) ==
    CASE protocol_num = 1 -> "icmp"
      [] protocol_num = 6 -> "tcp"
      [] protocol_num = 17 -> "udp"
      [] OTHER -> "other"

\* the text an f-string gives the port of a frame: its digits, or 'N/A'
PortText(packet, port) == IF packet.l4 \in {"TCP", "UDP"} THEN Str(port) ELSE NA

\* extract_features_from_packet(packet) for a frame with an IP layer
extract_features_from_packet(packet) ==
    [protocol_name |-> ProtoName(packet.proto),
     src_ip |-> packet.src, dst_ip |-> packet.dst,
     src_port |-> PortText(packet, packet.sport),
     dst_port |-> PortText(packet, packet.dport),
     src_bytes |-> packet.len, dst_bytes |-> 0]

\* predict_with_model without its try: an exception of model.predict leaves it
predict_with_model_uncaught(features, outcome) ==
    IF ~model \/ ~le_proto THEN None
    ELSE IF features.protocol_name \notin Classes THEN None
    ELSE outcome

\* predict_with_model(features): the prediction, or None; outcome is what
\* model.predict does when it is reached
predict_with_model(features, outcome) ==
    IF ~model \/ ~le_proto THEN None
    ELSE IF features.protocol_name \notin Classes THEN None
    ELSE IF outcome = "raise" THEN None
    ELSE outcome

\* the counting part with the histograms filled for every frame
count_packet_hist_always(is_attack, packet_info, protocol_name, size) ==
    LET total == packet_count + 1
        normal == IF is_attack THEN normal_count ELSE normal_count + 1
        attacks == IF is_attack THEN attack_count + 1 ELSE attack_count
    IN  /\ packet_count' = total
        /\ normal_count' = normal
        /\ attack_count' = attacks
        /\ protocol_stats' = [protocol_stats EXCEPT ![Upper(protocol_name)] = @ + 1]
        /\ ip_stats' = [ip_stats EXCEPT ![packet_info.src_ip] = @ + 1]
        /\ alerts_log' = IF is_attack THEN log_alert(packet_info, protocol_name, size)
                                      ELSE alerts_log
        /\ IF total % FlushEvery = 0
              THEN update_stats(total, normal, attacks)
              ELSE UNCHANGED <<stats_file, stats_writes>>

\* the counting part of process_packet (lines 258-271 and 297-310): count the
\* frame, on an attack fill the histograms and log the alert, then flush if due
count_packet(is_attack, packet_info, protocol_name, size) ==
    LET total == packet_count + 1
        normal == IF is_attack THEN normal_count ELSE normal_count + 1
        attacks == IF is_attack THEN attack_count + 1 ELSE attack_count
    IN  /\ packet_count' = total
        /\ normal_count' = normal
        /\ attack_count' = attacks
        /\ IF is_attack
              THEN /\ protocol_stats' =
                        [protocol_stats EXCEPT ![Upper(protocol_name)] = @ + 1]
                   /\ ip_stats' = [ip_stats EXCEPT ![packet_info.src_ip] = @ + 1]
                   /\ alerts_log' = log_alert(packet_info, protocol_name, size)
              ELSE UNCHANGED <<protocol_stats, ip_stats, alerts_log>>
        /\ IF total % FlushEvery = 0
              THEN update_stats(total, normal, attacks)
              ELSE UNCHANGED <<stats_file, stats_writes>>

\* the frame source and the classifier stay within the bounds of the model
CanCount(is_attack) ==
    /\ packet_count < MaxPackets
    /\ is_attack => attack_count < MaxAlerts

\* process_packet(packet) without the return on features is None: a frame
\* without IP layer goes on to the simulated detection
process_real_packet_no_return(packet, outcome, size, coin) ==
    LET packet_info == [src_ip |-> packet.src, src_port |-> PortText(packet, packet.sport),
                        dst_ip |-> packet.dst, dst_port |-> PortText(packet, packet.dport)]
        features == IF packet.has_ip THEN extract_features_from_packet(packet) ELSE None
        prediction == IF model /\ packet.has_ip
                        THEN predict_with_model(features, outcome) ELSE None
    IN  IF prediction # None
          THEN /\ CanCount(prediction = "1")
               /\ count_packet(prediction = "1", packet_info,
                               features.protocol_name, features.src_bytes)
               /\ last' = Did("process_packet", packet.id, outcome,
                              IF prediction = "1" THEN "attack" ELSE "normal")
          ELSE /\ CanCount(coin)
               /\ count_packet(coin, packet_info, "tcp", size)
               /\ last' = Did("process_packet", packet.id, "none",
                              IF coin THEN "sim_attack" ELSE "sim_normal")

\* process_packet(packet) for a captured frame: packet is not None and HAS_SCAPY
process_real_packet(packet, outcome, size, coin) ==
    IF ~packet.has_ip
      THEN \* features is None: return
           /\ last' = Did("process_packet", packet.id, "none", "dropped")
           /\ UNCHANGED <<packet_count, normal_count, attack_count, protocol_stats,
                          ip_stats, alerts_log, stats_file, stats_writes>>
      ELSE LET features == extract_features_from_packet(packet)
               packet_info == [src_ip |-> features.src_ip, src_port |-> features.src_port,
                               dst_ip |-> features.dst_ip, dst_port |-> features.dst_port]
               prediction == IF model THEN predict_with_model(features, outcome) ELSE None
           IN  IF prediction # None
                 THEN \* the model's verdict
                      /\ CanCount(prediction = "1")
                      /\ count_packet(prediction = "1", packet_info,
                                      features.protocol_name, features.src_bytes)
                      /\ last' = Did("process_packet", packet.id, outcome,
                                     IF prediction = "1" THEN "attack" ELSE "normal")
                 ELSE \* falls through to the simulated detection: packet_info has
                      \* neither 'protocol' nor 'size', so 'tcp' and a random size
                      /\ CanCount(coin)
                      /\ count_packet(coin, packet_info, "tcp", size)
                      /\ last' = Did("process_packet", packet.id,
                                     IF model /\ le_proto /\ features.protocol_name \in Classes
                                       THEN outcome ELSE "none",
                                     IF coin THEN "sim_attack" ELSE "sim_normal")

\* process_packet() with no packet that asks the loaded model for the verdict
process_sim_packet_classified(draw, coin) ==
    LET packet_info == [src_ip |-> draw.src_ip, src_port |-> Str(draw.src_port),
                        dst_ip |-> draw.dst_ip, dst_port |-> Str(draw.dst_port)]
        is_attack == IF model /\ le_proto THEN TRUE ELSE coin
    IN  /\ CanCount(is_attack)
        /\ count_packet(is_attack, packet_info, Lower(draw.protocol), draw.size)
        /\ last' = Did("process_packet", NoPacket.id,
                       IF model /\ le_proto THEN "1" ELSE "none",
                       IF is_attack THEN "attack" ELSE "normal")

\* process_packet() with no packet: a simulated frame and a 20% coin flip
process_sim_packet(draw, coin) ==
    LET packet_info == [src_ip |-> draw.src_ip, src_port |-> Str(draw.src_port),
                        dst_ip |-> draw.dst_ip, dst_port |-> Str(draw.dst_port)]
    IN  /\ CanCount(coin)
        /\ count_packet(coin, packet_info, Lower(draw.protocol), draw.size)
        /\ last' = Did("process_packet", NoPacket.id, "none",
                       IF coin THEN "sim_attack" ELSE "sim_normal")

\* the inputs a call reads: model.predict is reached only for a frame with an
\* IP layer and a known protocol when the model and the encoder are loaded
ReachesPredict(packet) ==
    packet.has_ip /\ model /\ le_proto /\ ProtoName(packet.proto) \in Classes

OutcomesFor(packet) == IF ReachesPredict(packet) THEN PredictOutcomes ELSE {"none"}

\* the coin is flipped only on the simulated path
CoinsFor(packet, outcome) ==
    IF packet.has_ip /\ outcome \in {"none", "raise"} THEN BOOLEAN ELSE {FALSE}

\* the random size is read only when the simulated path logs an alert
SizesFor(coin) == IF coin THEN SimSizes ELSE {SimSizeMin}

\* what load_model leaves in the globals (model, le_proto): nothing loaded,
\* both loaded, or the model loaded and the encoder's load failed
LoadOutcomes == {<<FALSE, FALSE>>, <<TRUE, TRUE>>, <<TRUE, FALSE>>}

\* main() up to the start of the loop: initialize_files, load_model, mode choice
Main ==
    /\ prog = "nids_backend" /\ pc = "start"
    /\ initialize_files
    /\ \E loaded \in LoadOutcomes : model' = loaded[1] /\ le_proto' = loaded[2]
    /\ pc' = IF mode = "live" /\ HAS_SCAPY THEN "live" ELSE "sim"
    /\ last' = Did("main", NoPacket.id, "none", "none")
    /\ UNCHANGED <<prog, mode, HAS_SCAPY, packet_count, normal_count, attack_count,
                   protocol_stats, ip_stats, pcap_dir, processed_files, cur_file>>
    /\ UNCHANGED <<arg, result>>

\* sniff delivers one frame to packet_handler
LiveFrame ==
    /\ prog = "nids_backend" /\ pc = "live"
    /\ \E packet \in Frames :
          \E outcome \in OutcomesFor(packet) :
            \E coin \in CoinsFor(packet, outcome) :
              \E size \in SizesFor(coin) :
                process_real_packet(packet, outcome, size, coin)
    /\ UNCHANGED <<prog, pc, mode, HAS_SCAPY, model, le_proto, pcap_dir,
                   processed_files, cur_file>>
    /\ UNCHANGED <<arg, result>>

\* a slip in main: a failed capture ends the process instead of falling back
LiveCaptureFailsExits ==
    /\ prog = "nids_backend" /\ pc = "live"
    /\ pc' = "exited"
    /\ last' = Did("capture_failed", NoPacket.id, "none", "none")
    /\ UNCHANGED <<prog, mode, HAS_SCAPY, model, le_proto, packet_count, normal_count,
                   attack_count, protocol_stats, ip_stats, alerts_log, stats_file,
                   stats_writes, pcap_dir, processed_files, cur_file>>
    /\ UNCHANGED <<arg, result>>

\* sniff raises (PermissionError or another Exception): run_live_capture
\* returns False and main falls back to run_simulation_mode
LiveCaptureFails ==
    /\ prog = "nids_backend" /\ pc = "live"
    /\ pc' = "sim"
    /\ last' = Did("capture_failed", NoPacket.id, "none", "none")
    /\ UNCHANGED <<prog, mode, HAS_SCAPY, model, le_proto, packet_count, normal_count,
                   attack_count, protocol_stats, ip_stats, alerts_log, stats_file,
                   stats_writes, pcap_dir, processed_files, cur_file>>
    /\ UNCHANGED <<arg, result>>

\* sniff returns after count frames: run_live_capture returns True, main ends
LiveCaptureEnds ==
    /\ prog = "nids_backend" /\ pc = "live"
    /\ pc' = "exited"
    /\ last' = Did("capture_ended", NoPacket.id, "none", "none")
    /\ UNCHANGED <<prog, mode, HAS_SCAPY, model, le_proto, packet_count, normal_count,
                   attack_count, protocol_stats, ip_stats, alerts_log, stats_file,
                   stats_writes, pcap_dir, processed_files, cur_file>>
    /\ UNCHANGED <<arg, result>>

\* Ctrl+C during sniff. scapy either lets KeyboardInterrupt reach main's
\* handler (update_stats, summary) or stops the capture and returns normally
InterruptLive ==
    /\ prog = "nids_backend" /\ pc = "live"
    /\ \E propagates \in BOOLEAN :
          IF propagates
            THEN /\ update_stats(packet_count, normal_count, attack_count)
                 /\ pc' = "stopped"
            ELSE /\ UNCHANGED <<stats_file, stats_writes>>
                 /\ pc' = "exited"
    /\ last' = Did("interrupt", NoPacket.id, "none", "none")
    /\ UNCHANGED <<prog, mode, HAS_SCAPY, model, le_proto, packet_count, normal_count,
                   attack_count, protocol_stats, ip_stats, alerts_log, pcap_dir,
                   processed_files, cur_file>>
    /\ UNCHANGED <<arg, result>>

\* one iteration of run_simulation_mode's loop
SimFrame ==
    /\ prog = "nids_backend" /\ pc = "sim"
    /\ \E draw \in SimDraws, coin \in BOOLEAN : process_sim_packet(draw, coin)
    /\ UNCHANGED <<prog, pc, mode, HAS_SCAPY, model, le_proto, pcap_dir,
                   processed_files, cur_file>>
    /\ UNCHANGED <<arg, result>>

\* Ctrl+C in run_simulation_mode: caught by its own except KeyboardInterrupt,
\* the function returns and main's try block ends without reaching its handler
InterruptSim ==
    /\ prog = "nids_backend" /\ pc = "sim"
    /\ pc' = "exited"
    /\ last' = Did("interrupt", NoPacket.id, "none", "none")
    /\ UNCHANGED <<prog, mode, HAS_SCAPY, model, le_proto, packet_count, normal_count,
                   attack_count, protocol_stats, ip_stats, alerts_log, stats_file,
                   stats_writes, pcap_dir, processed_files, cur_file>>
    /\ UNCHANGED <<arg, result>>

\* what process_packet decides for a captured frame with an IP layer: the
\* model's verdict, or the coin of the simulated path with 'tcp' and a random size
frame_verdict(packet, outcome, size, coin) ==
    LET features == extract_features_from_packet(packet)
        prediction == IF model THEN predict_with_model(features, outcome) ELSE None
    IN  [packet_info |-> [src_ip |-> features.src_ip, src_port |-> features.src_port,
                          dst_ip |-> features.dst_ip, dst_port |-> features.dst_port],
         is_attack |-> IF prediction # None THEN prediction = "1" ELSE coin,
         protocol_name |-> IF prediction # None THEN features.protocol_name ELSE "tcp",
         size |-> IF prediction # None THEN features.src_bytes ELSE size]

\* what process_packet decides for a simulated frame
draw_verdict(draw, coin) ==
    [packet_info |-> [src_ip |-> draw.src_ip, src_port |-> Str(draw.src_port),
                      dst_ip |-> draw.dst_ip, dst_port |-> Str(draw.dst_port)],
     is_attack |-> coin, protocol_name |-> Lower(draw.protocol), size |-> draw.size]

\* the statements of process_packet at which an exception can leave it once
\* the frame is being counted: right after packet_count += 1, in log_alert
\* (before its line is written), in update_stats (before the file is opened)
StopPoints == {"counted", "log_alert", "update_stats"}

\* log_alert and update_stats are the two statements that write a file
WritePoints == {"log_alert", "update_stats"}

\* process_packet up to the statement `stop`, where an exception leaves it
process_packet_until(v, stop) ==
    LET total == packet_count + 1
        logged == v.is_attack /\ stop # "counted"
    IN  /\ CanCount(v.is_attack)
        /\ stop = "log_alert" => v.is_attack
        /\ stop = "update_stats" => total % FlushEvery = 0
        /\ packet_count' = total
        /\ attack_count' = IF logged THEN attack_count + 1 ELSE attack_count
        /\ normal_count' = IF ~v.is_attack /\ stop = "update_stats"
                              THEN normal_count + 1 ELSE normal_count
        /\ IF logged
              THEN /\ protocol_stats' =
                        [protocol_stats EXCEPT ![Upper(v.protocol_name)] = @ + 1]
                   /\ ip_stats' = [ip_stats EXCEPT ![v.packet_info.src_ip] = @ + 1]
              ELSE UNCHANGED <<protocol_stats, ip_stats>>
        /\ alerts_log' = IF v.is_attack /\ stop = "update_stats"
                            THEN log_alert(v.packet_info, v.protocol_name, v.size)
                            ELSE alerts_log

\* a write of log_alert or update_stats raises OSError while sniff's callback
\* runs: packet_handler catches it and the capture goes on
LiveFrameWriteFails ==
    /\ prog = "nids_backend" /\ pc = "live"
    /\ \E packet \in {f \in Frames : f.has_ip}, stop \in WritePoints :
          \E outcome \in OutcomesFor(packet) :
            \E coin \in CoinsFor(packet, outcome) :
              \E size \in SizesFor(coin) :
                /\ process_packet_until(frame_verdict(packet, outcome, size, coin), stop)
                /\ last' = Did("process_packet", packet.id, outcome, "io_error")
    /\ UNCHANGED <<prog, pc, mode, HAS_SCAPY, model, le_proto, stats_file,
                   stats_writes, pcap_dir, processed_files, cur_file, arg, result>>

\* the same failure in run_simulation_mode: its try catches KeyboardInterrupt
\* only and main's does too, so the exception ends the process
SimFrameWriteFails ==
    /\ prog = "nids_backend" /\ pc = "sim"
    /\ \E draw \in SimDraws, coin \in BOOLEAN, stop \in WritePoints :
          process_packet_until(draw_verdict(draw, coin), stop)
    /\ pc' = "crashed"
    /\ last' = Did("process_packet", NoPacket.id, "none", "io_error")
    /\ UNCHANGED <<prog, mode, HAS_SCAPY, model, le_proto, stats_file,
                   stats_writes, pcap_dir, processed_files, cur_file, arg, result>>

\* Ctrl+C while sniff's callback runs: KeyboardInterrupt is not an Exception,
\* packet_handler lets it through; scapy hands it to main's handler
\* (update_stats with the counters as they are) or ends the capture
LiveFrameInterrupted ==
    /\ prog = "nids_backend" /\ pc = "live"
    /\ \E packet \in {f \in Frames : f.has_ip}, stop \in StopPoints :
          \E outcome \in OutcomesFor(packet) :
            \E coin \in CoinsFor(packet, outcome) :
              \E size \in SizesFor(coin) :
                /\ process_packet_until(frame_verdict(packet, outcome, size, coin), stop)
                /\ last' = Did("process_packet", packet.id, outcome, "interrupted")
    /\ \E propagates \in BOOLEAN :
          IF propagates
            THEN /\ update_stats(packet_count', normal_count', attack_count')
                 /\ pc' = "stopped"
            ELSE /\ UNCHANGED <<stats_file, stats_writes>>
                 /\ pc' = "exited"
    /\ UNCHANGED <<prog, mode, HAS_SCAPY, model, le_proto, pcap_dir,
                   processed_files, cur_file, arg, result>>

\* Ctrl+C while process_packet runs in run_simulation_mode: the loop's
\* except KeyboardInterrupt ends it where the frame stands
SimFrameInterrupted ==
    /\ prog = "nids_backend" /\ pc = "sim"
    /\ \E draw \in SimDraws, coin \in BOOLEAN, stop \in StopPoints :
          process_packet_until(draw_verdict(draw, coin), stop)
    /\ pc' = "exited"
    /\ last' = Did("process_packet", NoPacket.id, "none", "interrupted")
    /\ UNCHANGED <<prog, mode, HAS_SCAPY, model, le_proto, stats_file,
                   stats_writes, pcap_dir, processed_files, cur_file, arg, result>>

(***************************************************************************)
(* live_nids.py, process_pcap.py and generate_demo_data.py share the       *)
(* counting loop body without the histograms.                              *)
(***************************************************************************)
\* the loop body with `else:` lost: every frame is counted as normal
count_frame_no_else(is_attack, line) ==
    LET total == packet_count + 1
        normal == normal_count + 1
        attacks == IF is_attack THEN attack_count + 1 ELSE attack_count
    IN  /\ packet_count' = total
        /\ normal_count' = normal
        /\ attack_count' = attacks
        /\ alerts_log' = IF is_attack THEN File(alerts_log.lines \o <<line>>)
                                      ELSE alerts_log
        /\ IF total % FlushEvery = 0
              THEN update_stats(total, normal, attacks)
              ELSE UNCHANGED <<stats_file, stats_writes>>
        /\ UNCHANGED <<protocol_stats, ip_stats>>

\* count the frame, on an attack append its line, then flush if due
\* (live_nids.py 106-118, process_pcap.py 140-153, generate_demo_data.py 79-94)
count_frame(is_attack, line) ==
    LET total == packet_count + 1
        normal == IF is_attack THEN normal_count ELSE normal_count + 1
        attacks == IF is_attack THEN attack_count + 1 ELSE attack_count
    IN  /\ packet_count' = total
        /\ normal_count' = normal
        /\ attack_count' = attacks
        /\ alerts_log' = IF is_attack THEN File(alerts_log.lines \o <<line>>)
                                      ELSE alerts_log
        /\ IF total % FlushEvery = 0
              THEN update_stats(total, normal, attacks)
              ELSE UNCHANGED <<stats_file, stats_writes>>
        /\ UNCHANGED <<protocol_stats, ip_stats>>

\* the line log_alert(packet, protocol_name, size) of live_nids.py and
\* process_pcap.py writes: the frame's addresses, its ports or 'N/A'
packet_alert_line(packet, protocol_name, size) ==
    AlertLine([src_ip |-> packet.src, src_port |-> PortText(packet, packet.sport),
               dst_ip |-> packet.dst, dst_port |-> PortText(packet, packet.dport)],
              protocol_name, size)

\* extract_features(packet) of live_nids.py and process_pcap.py returns None
\* without an IP layer or with a protocol the encoder does not know
extract_features_ok(packet) ==
    packet.has_ip /\ ProtoName(packet.proto) \in Classes

\* clf.predict is reached only when extract_features gives features
OutcomesOf(packet) == IF extract_features_ok(packet) THEN {"0", "1", "raise"} ELSE {"none"}

\* the frame is dropped: nothing but the record of the step changes
drop_frame(packet, outcome) ==
    /\ last' = Did("process_packet", packet.id, outcome, "dropped")
    /\ UNCHANGED <<packet_count, normal_count, attack_count, protocol_stats,
                   ip_stats, alerts_log, stats_file, stats_writes>>

\* the frame is counted with the classifier's verdict
classify_frame(packet, outcome) ==
    /\ CanCount(outcome = "1")
    /\ count_frame(outcome = "1",
                   packet_alert_line(packet, ProtoName(packet.proto), packet.len))
    /\ last' = Did("process_packet", packet.id, outcome,
                   IF outcome = "1" THEN "attack" ELSE "normal")

(***************************************************************************)
(* live_nids.py                                                            *)
(***************************************************************************)
\* live_nids.update_stats(total, normal, attacks): no guard on total == 0;
\* the division raises ZeroDivisionError after two lines were written
update_stats_unguarded(total, normal, attacks) ==
    /\ stats_file' = File(StatsTextUnguarded(total, normal, attacks))
    /\ stats_writes' = Append(stats_writes, total)

\* module level up to sniff: the log file is opened with 'w' and the header written
LiveNidsStart ==
    /\ prog = "live_nids" /\ pc = "start"
    /\ alerts_log' = File(Header)
    /\ pc' = "live"
    /\ last' = Did("main", NoPacket.id, "none", "none")
    /\ UNCHANGED <<prog, mode, HAS_SCAPY, model, le_proto, packet_count, normal_count,
                   attack_count, protocol_stats, ip_stats, stats_file, stats_writes,
                   pcap_dir, processed_files, cur_file>>
    /\ UNCHANGED <<arg, result>>

\* sniff delivers one frame to live_nids.process_packet; an exception of
\* clf.predict is not caught anywhere and ends the script
LiveNidsFrame ==
    /\ prog = "live_nids" /\ pc = "live"
    /\ \E packet \in Frames :
          \E outcome \in OutcomesOf(packet) :
            IF ~extract_features_ok(packet)
              THEN drop_frame(packet, outcome) /\ pc' = pc
              ELSE IF outcome = "raise"
                THEN drop_frame(packet, outcome) /\ pc' = "crashed"
                ELSE classify_frame(packet, outcome) /\ pc' = pc
    /\ UNCHANGED <<prog, mode, HAS_SCAPY, model, le_proto, pcap_dir,
                   processed_files, cur_file>>
    /\ UNCHANGED <<arg, result>>

\* Ctrl+C during sniff: the handler calls update_stats and prints the
\* percentages, or scapy stops the capture and the script ends
InterruptLiveNids ==
    /\ prog = "live_nids" /\ pc = "live"
    /\ \E propagates \in BOOLEAN :
          IF propagates
            THEN /\ update_stats_unguarded(packet_count, normal_count, attack_count)
                 /\ pc' = IF packet_count > 0 THEN "stopped" ELSE "crashed"
            ELSE /\ UNCHANGED <<stats_file, stats_writes>>
                 /\ pc' = "exited"
    /\ last' = Did("interrupt", NoPacket.id, "none", "none")
    /\ UNCHANGED <<prog, mode, HAS_SCAPY, model, le_proto, packet_count, normal_count,
                   attack_count, protocol_stats, ip_stats, alerts_log, pcap_dir,
                   processed_files, cur_file>>
    /\ UNCHANGED <<arg, result>>

(***************************************************************************)
(* process_pcap.py                                                         *)
(***************************************************************************)
\* the capture files that can be in the watched directory
PcapFiles == {"a.pcap", "b.pcapng"}

\* where the process goes when process_pcap_file returns
AfterFile == IF mode = "continuous" THEN "watch" ELSE "stopped"

\* the script's entry: one file named on the command line, or continuous mode
PcapStart ==
    /\ prog = "process_pcap" /\ pc = "start"
    /\ pc' = IF mode = "continuous" THEN "watch" ELSE "file"
    /\ last' = Did("main", NoPacket.id, "none", "none")
    /\ UNCHANGED <<prog, mode, HAS_SCAPY, model, le_proto, packet_count, normal_count,
                   attack_count, protocol_stats, ip_stats, alerts_log, stats_file,
                   stats_writes, pcap_dir, processed_files, cur_file>>
    /\ UNCHANGED <<arg, result>>

\* a capture file appears in the watched directory
FileAppears ==
    /\ prog = "process_pcap" /\ pc \in {"watch", "replay"} /\ mode = "continuous"
    /\ \E f \in PcapFiles \ pcap_dir : pcap_dir' = pcap_dir \cup {f}
    /\ UNCHANGED <<prog, pc, mode, HAS_SCAPY, model, le_proto, packet_count,
                   normal_count, attack_count, protocol_stats, ip_stats, alerts_log,
                   stats_file, stats_writes, processed_files, cur_file, last>>
    /\ UNCHANGED <<arg, result>>

\* process_pcap_file with rdpcap outside its try: the error reaches
\* continuous_processing's handler and processed_files.add is skipped
process_pcap_file_begin_uncaught(f, readable) ==
    /\ alerts_log' = File(Header)
    /\ packet_count' = 0 /\ normal_count' = 0 /\ attack_count' = 0
    /\ IF readable
          THEN pc' = "replay" /\ cur_file' = f
          ELSE pc' = AfterFile /\ cur_file' = "none"
    /\ UNCHANGED processed_files
    /\ last' = Did("process_pcap_file", f, "none",
                   IF readable THEN "opened" ELSE "error")
    /\ UNCHANGED <<protocol_stats, ip_stats, stats_file, stats_writes>>

\* process_pcap_file(pcap_file) up to the loop: the log is opened with 'w',
\* the counters start at 0, rdpcap reads the file or raises
process_pcap_file_begin(f, readable) ==
    /\ alerts_log' = File(Header)
    /\ packet_count' = 0 /\ normal_count' = 0 /\ attack_count' = 0
    /\ IF readable
          THEN pc' = "replay" /\ cur_file' = f /\ UNCHANGED processed_files
          ELSE /\ pc' = AfterFile /\ cur_file' = "none"
               /\ processed_files' = IF mode = "continuous"
                                        THEN processed_files \cup {f}
                                        ELSE processed_files
    /\ last' = Did("process_pcap_file", f, "none",
                   IF readable THEN "opened" ELSE "error")
    /\ UNCHANGED <<protocol_stats, ip_stats, stats_file, stats_writes>>

\* continuous_processing without the test on processed_files
PcapPickAgain ==
    /\ prog = "process_pcap" /\ pc = "watch"
    /\ \E f \in pcap_dir, readable \in BOOLEAN :
          process_pcap_file_begin(f, readable)
    /\ UNCHANGED <<prog, mode, HAS_SCAPY, model, le_proto, pcap_dir>>
    /\ UNCHANGED <<arg, result>>

\* continuous_processing hands a file it has not processed to process_pcap_file
PcapPick ==
    /\ prog = "process_pcap" /\ pc = "watch"
    /\ \E f \in pcap_dir \ processed_files, readable \in BOOLEAN :
          process_pcap_file_begin(f, readable)
    /\ UNCHANGED <<prog, mode, HAS_SCAPY, model, le_proto, pcap_dir>>
    /\ UNCHANGED <<arg, result>>

\* the script was started with a file name: process_pcap_file runs on it, or
\* returns at once when no such file exists
PcapSingle ==
    /\ prog = "process_pcap" /\ pc = "file"
    /\ \/ \E f \in pcap_dir, readable \in BOOLEAN : process_pcap_file_begin(f, readable)
       \/ /\ PcapFiles \ pcap_dir # {}
          /\ pc' = "stopped"
          /\ last' = Did("process_pcap_file", NoPacket.id, "none", "not_found")
          /\ UNCHANGED <<packet_count, normal_count, attack_count, protocol_stats,
                         ip_stats, alerts_log, stats_file, stats_writes,
                         processed_files, cur_file>>
    /\ UNCHANGED <<prog, mode, HAS_SCAPY, model, le_proto, pcap_dir>>
    /\ UNCHANGED <<arg, result>>

\* one iteration of the loop over the packets of the file; an exception of
\* clf.predict leaves the loop through process_pcap_file's except Exception
PcapFrame ==
    /\ prog = "process_pcap" /\ pc = "replay"
    /\ \E packet \in Frames :
          \E outcome \in OutcomesOf(packet) :
            IF ~extract_features_ok(packet)
              THEN /\ drop_frame(packet, outcome)
                   /\ UNCHANGED <<pc, cur_file, processed_files>>
              ELSE IF outcome = "raise"
                THEN /\ drop_frame(packet, outcome)
                     /\ pc' = AfterFile /\ cur_file' = "none"
                     /\ processed_files' = IF mode = "continuous"
                                              THEN processed_files \cup {cur_file}
                                              ELSE processed_files
                ELSE /\ classify_frame(packet, outcome)
                     /\ UNCHANGED <<pc, cur_file, processed_files>>
    /\ UNCHANGED <<prog, mode, HAS_SCAPY, model, le_proto, pcap_dir>>
    /\ UNCHANGED <<arg, result>>

\* the loop is past the last packet: the final update_stats, the file is done
PcapFinish ==
    /\ prog = "process_pcap" /\ pc = "replay"
    /\ update_stats(packet_count, normal_count, attack_count)
    /\ pc' = AfterFile /\ cur_file' = "none"
    /\ processed_files' = IF mode = "continuous" THEN processed_files \cup {cur_file}
                                                 ELSE processed_files
    /\ last' = Did("process_pcap_file", NoPacket.id, "none", "finished")
    /\ UNCHANGED <<prog, mode, HAS_SCAPY, model, le_proto, packet_count, normal_count,
                   attack_count, protocol_stats, ip_stats, alerts_log, pcap_dir>>
    /\ UNCHANGED <<arg, result>>

\* Ctrl+C: continuous_processing breaks out of its loop; in single-file mode
\* nothing catches KeyboardInterrupt. Either way no update_stats follows
InterruptPcap ==
    /\ prog = "process_pcap" /\ pc \in {"watch", "replay"}
    /\ pc' = "exited"
    /\ last' = Did("interrupt", NoPacket.id, "none", "none")
    /\ UNCHANGED <<prog, mode, HAS_SCAPY, model, le_proto, packet_count, normal_count,
                   attack_count, protocol_stats, ip_stats, alerts_log, stats_file,
                   stats_writes, pcap_dir, processed_files, cur_file>>
    /\ UNCHANGED <<arg, result>>

(***************************************************************************)
(* generate_demo_data.py                                                   *)
(***************************************************************************)
\* generate_alert(): a line drawn from the pools, the protocol as drawn
generate_alert(draw) ==
    AlertLine([src_ip |-> draw.src_ip, src_port |-> Str(draw.src_port),
               dst_ip |-> draw.dst_ip, dst_port |-> Str(draw.dst_port)],
              draw.protocol, draw.size)

\* run_demo_generator up to its loop: initialize_files
DemoStart ==
    /\ prog = "generate_demo_data" /\ pc = "start"
    /\ initialize_files
    /\ pc' = "sim"
    /\ last' = Did("main", NoPacket.id, "none", "none")
    /\ UNCHANGED <<prog, mode, HAS_SCAPY, model, le_proto, packet_count, normal_count,
                   attack_count, protocol_stats, ip_stats, pcap_dir, processed_files,
                   cur_file>>
    /\ UNCHANGED <<arg, result>>

\* one iteration of the generator's loop
DemoFrame ==
    /\ prog = "generate_demo_data" /\ pc = "sim"
    /\ \E draw \in SimDraws, is_attack \in BOOLEAN :
          /\ CanCount(is_attack)
          /\ count_frame(is_attack, generate_alert(draw))
          /\ last' = Did("process_packet", NoPacket.id, "none",
                         IF is_attack THEN "sim_attack" ELSE "sim_normal")
    /\ UNCHANGED <<prog, pc, mode, HAS_SCAPY, model, le_proto, pcap_dir,
                   processed_files, cur_file>>
    /\ UNCHANGED <<arg, result>>

\* Ctrl+C in the generator's loop: its handler calls update_stats
InterruptDemo ==
    /\ prog = "generate_demo_data" /\ pc = "sim"
    /\ update_stats(packet_count, normal_count, attack_count)
    /\ pc' = "stopped"
    /\ last' = Did("interrupt", NoPacket.id, "none", "none")
    /\ UNCHANGED <<prog, mode, HAS_SCAPY, model, le_proto, packet_count, normal_count,
                   attack_count, protocol_stats, ip_stats, alerts_log, pcap_dir,
                   processed_files, cur_file>>
    /\ UNCHANGED <<arg, result>>

(***************************************************************************)
(* The specification.                                                      *)
(***************************************************************************)
Programs == {"nids_backend", "live_nids", "process_pcap", "generate_demo_data"}

\* no reader call is under way in the four writer programs
NoCall == [fn |-> "none", limit |-> 0, proto |-> 0, len |-> 0]

Pending == [done |-> FALSE]

Init ==
    /\ prog \in Programs
    /\ pc = "start"
    /\ CASE prog = "nids_backend" ->
               mode \in {"live", "simulation"} /\ HAS_SCAPY \in BOOLEAN
          [] prog = "process_pcap" ->
               mode \in {"single", "continuous"} /\ HAS_SCAPY = TRUE
          [] OTHER -> mode = "live" /\ HAS_SCAPY = TRUE
    \* live_nids.py and process_pcap.py load the model at import
    /\ model = (prog \in {"live_nids", "process_pcap"})
    /\ le_proto = model
    /\ packet_count = 0 /\ normal_count = 0 /\ attack_count = 0
    /\ protocol_stats = [k \in ProtoKeys |-> 0]
    /\ ip_stats = [k \in IpKeys |-> 0]
    /\ alerts_log \in {Absent, OldLog}
    /\ stats_file \in {Absent, OldStats}
    /\ stats_writes = <<>>
    /\ IF prog = "process_pcap"
          THEN pcap_dir \in SUBSET PcapFiles
          ELSE pcap_dir = {}
    /\ processed_files = {}
    /\ cur_file = "none"
    /\ last = Did("none", NoPacket.id, "none", "none")
    /\ arg = NoCall
    /\ result = Pending

Next ==
    \/ Main
    \/ LiveFrame
    \/ LiveCaptureFails
    \/ LiveCaptureEnds
    \/ InterruptLive
    \/ SimFrame
    \/ InterruptSim
    \/ LiveNidsStart
    \/ LiveNidsFrame
    \/ InterruptLiveNids
    \/ PcapStart
    \/ FileAppears
    \/ PcapPick
    \/ PcapSingle
    \/ PcapFrame
    \/ PcapFinish
    \/ InterruptPcap
    \/ DemoStart
    \/ DemoFrame
    \/ InterruptDemo

Spec == Init /\ [][Next]_vars

\* the four programs on a disk whose writes can fail
NextWriteFaults ==
    \/ Next
    \/ LiveFrameWriteFails
    \/ SimFrameWriteFails

SpecWriteFaults == Init /\ [][NextWriteFaults]_vars

\* the four programs with Ctrl+C arriving at any statement of process_packet
NextInterrupts ==
    \/ Next
    \/ LiveFrameInterrupted
    \/ SimFrameInterrupted

SpecInterrupts == Init /\ [][NextInterrupts]_vars

(***************************************************************************)
(* nids_backend.process_packet statement by statement: what a reader of    *)
(* the two files can see while a frame is being processed.                 *)
(***************************************************************************)
\* the statements in an order that writes the snapshot before the alert
StatementsFlushFirst == <<"packet_count", "tally", "update_stats", "log_alert">>

\* the statements of process_packet once the verdict is known, in program
\* order (lines 258-271 and 297-310): packet_count += 1; attack_count or
\* normal_count and the histograms; log_alert; update_stats if due
Statements == <<"packet_count", "tally", "log_alert", "update_stats">>

\* the frame under way: its verdict and the position of the next statement
InFlight(v, at) == [fn |-> "process_packet", v |-> v, at |-> at]

\* main up to the loop, for the statement-wise run
InitSteps == Init /\ prog = "nids_backend"

\* sniff's callback enters process_packet: the frame is dropped, or its
\* verdict is known and the counting starts
BeginLiveFrame ==
    /\ prog = "nids_backend" /\ pc = "live" /\ arg = NoCall
    /\ \E packet \in Frames :
          \E outcome \in OutcomesFor(packet) :
            \E coin \in CoinsFor(packet, outcome) :
              \E size \in SizesFor(coin) :
                IF ~packet.has_ip
                  THEN /\ last' = Did("process_packet", packet.id, "none", "dropped")
                       /\ arg' = arg
                  ELSE LET v == frame_verdict(packet, outcome, size, coin)
                       IN  /\ CanCount(v.is_attack)
                           /\ arg' = InFlight(v, 1)
                           /\ last' = Did("process_packet", packet.id, outcome, "running")
    /\ UNCHANGED <<prog, pc, mode, HAS_SCAPY, model, le_proto, packet_count,
                   normal_count, attack_count, protocol_stats, ip_stats, alerts_log,
                   stats_file, stats_writes, pcap_dir, processed_files, cur_file,
                   result>>

\* run_simulation_mode's loop enters process_packet() and draws the frame
BeginSimFrame ==
    /\ prog = "nids_backend" /\ pc = "sim" /\ arg = NoCall
    /\ \E draw \in SimDraws, coin \in BOOLEAN :
          LET v == draw_verdict(draw, coin)
          IN  /\ CanCount(v.is_attack)
              /\ arg' = InFlight(v, 1)
    /\ last' = Did("process_packet", NoPacket.id, "none", "running")
    /\ UNCHANGED <<prog, pc, mode, HAS_SCAPY, model, le_proto, packet_count,
                   normal_count, attack_count, protocol_stats, ip_stats, alerts_log,
                   stats_file, stats_writes, pcap_dir, processed_files, cur_file,
                   result>>

\* the statement the frame under way runs next
AtStatement(name) ==
    /\ prog = "nids_backend" /\ pc \in {"live", "sim"}
    /\ arg.fn = "process_packet" /\ Statements[arg.at] = name

\* on to the next statement; after the last one process_packet returns
NextStatement ==
    arg' = IF arg.at = Len(Statements) THEN NoCall ELSE [arg EXCEPT !.at = @ + 1]

\* packet_count += 1
CountStatement ==
    /\ AtStatement("packet_count")
    /\ packet_count' = packet_count + 1
    /\ NextStatement
    /\ UNCHANGED <<prog, pc, mode, HAS_SCAPY, model, le_proto, normal_count,
                   attack_count, protocol_stats, ip_stats, alerts_log, stats_file,
                   stats_writes, pcap_dir, processed_files, cur_file, last, result>>

\* attack_count += 1 and the two histograms, or normal_count += 1
TallyStatement ==
    /\ AtStatement("tally")
    /\ IF arg.v.is_attack
          THEN /\ attack_count' = attack_count + 1
               /\ protocol_stats' =
                    [protocol_stats EXCEPT ![Upper(arg.v.protocol_name)] = @ + 1]
               /\ ip_stats' = [ip_stats EXCEPT ![arg.v.packet_info.src_ip] = @ + 1]
               /\ UNCHANGED normal_count
          ELSE /\ normal_count' = normal_count + 1
               /\ UNCHANGED <<attack_count, protocol_stats, ip_stats>>
    /\ NextStatement
    /\ UNCHANGED <<prog, pc, mode, HAS_SCAPY, model, le_proto, packet_count,
                   alerts_log, stats_file, stats_writes, pcap_dir, processed_files,
                   cur_file, last, result>>

\* log_alert(packet_info, protocol_name, size) in the attack branch
LogAlertStatement ==
    /\ AtStatement("log_alert")
    /\ alerts_log' = IF arg.v.is_attack
                       THEN log_alert(arg.v.packet_info, arg.v.protocol_name, arg.v.size)
                       ELSE alerts_log
    /\ NextStatement
    /\ UNCHANGED <<prog, pc, mode, HAS_SCAPY, model, le_proto, packet_count,
                   normal_count, attack_count, protocol_stats, ip_stats, stats_file,
                   stats_writes, pcap_dir, processed_files, cur_file, last, result>>

\* if packet_count % 10 == 0: update_stats(packet_count, normal_count, attack_count)
UpdateStatsStatement ==
    /\ AtStatement("update_stats")
    /\ IF packet_count % FlushEvery = 0
          THEN update_stats(packet_count, normal_count, attack_count)
          ELSE UNCHANGED <<stats_file, stats_writes>>
    /\ NextStatement
    /\ UNCHANGED <<prog, pc, mode, HAS_SCAPY, model, le_proto, packet_count,
                   normal_count, attack_count, protocol_stats, ip_stats, alerts_log,
                   pcap_dir, processed_files, cur_file, last, result>>

NextSteps ==
    \/ Main
    \/ BeginLiveFrame
    \/ BeginSimFrame
    \/ CountStatement
    \/ TallyStatement
    \/ LogAlertStatement
    \/ UpdateStatsStatement

SpecSteps == InitSteps /\ [][NextSteps]_vars

(***************************************************************************)
(* process_pcap.py in continuous mode, with the progress its loops make.   *)
(***************************************************************************)
InitWatch == Init /\ prog = "process_pcap" /\ mode = "continuous"

NextWatch ==
    \/ PcapStart
    \/ FileAppears
    \/ PcapPick
    \/ PcapFrame
    \/ PcapFinish
    \/ InterruptPcap

\* the script reaches continuous_processing; `while True` scans the directory
\* again after every sleep(30), so a file that waits is picked up; rdpcap
\* returns a finite list, so the loop over its packets comes to its end.
\* Nothing makes a user press Ctrl+C or a file appear
WatchProgress ==
    /\ WF_vars(PcapStart)
    /\ WF_vars(PcapPick)
    /\ WF_vars(PcapFinish)

SpecWatch == InitWatch /\ [][NextWatch]_vars /\ WatchProgress

(***************************************************************************)
(* api.py and dashboard.py: the readers of the two files, and single calls *)
(* of the feature extraction.                                              *)
(***************************************************************************)
\* the longest run of digits a text starts with: what (\d+) captures there
LeadingDigits(text) ==
    LET other == {i \in 1..Len(text) : text[i] \notin DigitSet}
    IN  IF other = {} THEN text
        ELSE SubSeq(text, 1, (CHOOSE i \in other : \A j \in other : i <= j) - 1)

RECURSIVE Val(_)
\* int(text) of a text of digits
Val(text) ==
    IF text = <<>> THEN 0
    ELSE 10 * Val(SubSeq(text, 1, Len(text) - 1))
         + (CHOOSE d \in 0..9 : Digits[d + 1] = text[Len(text)])

\* float(text) of a text "d.dd", as a number of hundredths
Hundredths(text) == Val(SelectSeq(text, LAMBDA c : c \in DigitSet))

\* the placeholder of a field no pattern matched
NAField == "N/A"

\* the record parse_alerts builds from a line that contains '[ALERT]': each
\* pattern that does not match leaves 'N/A' (size: 0); the record is appended
\* whatever matched. Src and Dst need a host and a port that starts with a digit
parse_alert_line(line) ==
    LET src_port == LeadingDigits(line.src_port)
        dst_port == LeadingDigits(line.dst_port)
        size == LeadingDigits(line.size)
        src_match == line.src_ip # "" /\ src_port # <<>>
        dst_match == line.dst_ip # "" /\ dst_port # <<>>
    IN  [src_ip |-> IF src_match THEN line.src_ip ELSE NAField,
         src_port |-> IF src_match THEN src_port ELSE NA,
         dst_ip |-> IF dst_match THEN line.dst_ip ELSE NAField,
         dst_port |-> IF dst_match THEN dst_port ELSE NA,
         protocol |-> IF line.protocol # "" THEN line.protocol ELSE NAField,
         size |-> IF size # <<>> THEN Val(size) ELSE 0]

\* list.reverse()
Reverse(s) == [i \in 1..Len(s) |-> s[Len(s) + 1 - i]]

\* s[:limit] for limit >= 0
Take(s, limit) == SubSeq(s, 1, IF limit < Len(s) THEN limit ELSE Len(s))

\* parse_alerts with the reverse left out
parse_alerts_unreversed(file, limit) ==
    IF ~file.exists THEN [done |-> TRUE, error |-> FALSE, alerts |-> <<>>]
    ELSE LET lines == file.lines
             start_idx == IF Len(lines) > 0 /\ lines[1].kind = "banner" THEN 2 ELSE 0
             picked == SelectSeq(SubSeq(lines, start_idx + 1, Len(lines)),
                                 LAMBDA l : l.kind = "alert")
             alerts == [i \in 1..Len(picked) |-> parse_alert_line(picked[i])]
         IN  [done |-> TRUE, error |-> FALSE, alerts |-> Take(alerts, limit)]

\* parse_alerts(limit): the lines after the header that contain '[ALERT]',
\* newest first, at most limit of them
parse_alerts(file, limit) ==
    IF ~file.exists THEN [done |-> TRUE, error |-> FALSE, alerts |-> <<>>]
    ELSE LET lines == file.lines
             start_idx == IF Len(lines) > 0 /\ lines[1].kind = "banner" THEN 2 ELSE 0
             picked == SelectSeq(SubSeq(lines, start_idx + 1, Len(lines)),
                                 LAMBDA l : l.kind = "alert")
             alerts == [i \in 1..Len(picked) |-> parse_alert_line(picked[i])]
         IN  [done |-> TRUE, error |-> FALSE, alerts |-> Take(Reverse(alerts), limit)]

\* the dict parse_stats starts from
StatsDefaults ==
    [done |-> TRUE, error |-> FALSE, total_packets |-> 0, normal_traffic |-> 0,
     attacks_detected |-> 0, normal_percentage |-> 0, attack_percentage |-> 0,
     last_updated |-> NA]

\* a reader that knows no 'Attacks Detected:' line
parse_stats_line_no_attacks(stats, line) ==
    CASE line.kind = "total" ->
           IF LeadingDigits(line.n) = <<>> THEN [stats EXCEPT !.error = TRUE]
           ELSE [stats EXCEPT !.total_packets = Val(LeadingDigits(line.n))]
      [] line.kind = "normal" ->
           IF line.n # <<>> /\ line.pct # <<>>
             THEN [stats EXCEPT !.normal_traffic = Val(line.n),
                                !.normal_percentage = Hundredths(line.pct)]
             ELSE stats
      [] line.kind = "updated" -> [stats EXCEPT !.last_updated = line.n]
      [] OTHER -> stats

\* one turn of parse_stats' loop over the lines: the first label found decides;
\* re.search(r'\d+', line).group() raises on a total line without a digit,
\* the two percentage lines are read only when their pattern matches
parse_stats_line(stats, line) ==
    CASE line.kind = "total" ->
           IF LeadingDigits(line.n) = <<>> THEN [stats EXCEPT !.error = TRUE]
           ELSE [stats EXCEPT !.total_packets = Val(LeadingDigits(line.n))]
      [] line.kind = "normal" ->
           IF line.n # <<>> /\ line.pct # <<>>
             THEN [stats EXCEPT !.normal_traffic = Val(line.n),
                                !.normal_percentage = Hundredths(line.pct)]
             ELSE stats
      [] line.kind = "attacks" ->
           IF line.n # <<>> /\ line.pct # <<>>
             THEN [stats EXCEPT !.attacks_detected = Val(line.n),
                                !.attack_percentage = Hundredths(line.pct)]
             ELSE stats
      [] line.kind = "updated" -> [stats EXCEPT !.last_updated = line.n]
      [] OTHER -> stats

RECURSIVE parse_stats_from(_, _, _)
\* the loop of parse_stats from line i on; an exception ends it
parse_stats_from(lines, i, stats) ==
    IF i > Len(lines) \/ stats.error THEN stats
    ELSE parse_stats_from(lines, i + 1, parse_stats_line(stats, lines[i]))

\* api.parse_stats(): the defaults when the file is missing; {'error': ...}
\* when the loop raised
parse_stats(file) ==
    IF ~file.exists THEN StatsDefaults
    ELSE LET stats == parse_stats_from(file.lines, 1, StatsDefaults)
         IN  IF stats.error THEN [StatsDefaults EXCEPT !.error = TRUE] ELSE stats

\* the alert line nids_backend logs for a captured frame the model calls an attack
FrameAlert(packet) ==
    LET features == extract_features_from_packet(packet)
    IN  AlertLine([src_ip |-> features.src_ip, src_port |-> features.src_port,
                   dst_ip |-> features.dst_ip, dst_port |-> features.dst_port],
                  features.protocol_name, features.src_bytes)

\* complete alert lines as the logger writes them: a TCP frame, an ICMP frame
\* (its ports are 'N/A') and a line of an earlier run
LinePool == {FrameAlert(FrameById("tcp500")), FrameAlert(FrameById("icmp64")), OldAlert}

\* how many pieces of an alert line have reached the file
TruncationPoints == 0..7

\* a line a reader sees while log_alert's write is under way: only its first
\* k pieces have reached the file. 0: part of the timestamp; 1: up to [ALERT];
\* 2: the source host; 3: the first character of the source port; 4: the
\* destination host; 5: the destination port; 6: the protocol; 7: the first
\* digit of the size
Truncated(line, k) ==
    [kind |-> IF k = 0 THEN "partial" ELSE "alert",
     src_ip |-> IF k >= 2 THEN line.src_ip ELSE "",
     src_port |-> IF k >= 4 THEN line.src_port
                  ELSE IF k = 3 THEN SubSeq(line.src_port, 1, 1) ELSE <<>>,
     dst_ip |-> IF k >= 4 THEN line.dst_ip ELSE "",
     dst_port |-> IF k >= 5 THEN line.dst_port ELSE <<>>,
     protocol |-> IF k >= 6 THEN line.protocol ELSE "",
     size |-> IF k >= 7 THEN SubSeq(line.size, 1, 1) ELSE <<>>]

\* complete lines after the header of one log of the model
MaxLogLines == 2

\* the contents of the alert log a reader can find: no file; with or without
\* the header (log_alert creates the file when it is missing), some complete
\* lines, and possibly a last line that is still being written
AlertLogs ==
    {Absent} \cup
    {File(head \o body \o tail) :
        head \in {<<>>, Header},
        body \in UNION {[1..n -> LinePool] : n \in 0..MaxLogLines},
        tail \in {<<>>} \cup {<<Truncated(l, k)>> : l \in LinePool, k \in TruncationPoints}}

\* the limits a caller asks for
MaxLimit == 3

\* a statistics line while its write is under way: "label" part of the label,
\* "value" the label alone, "digit" the first digit of the count, "count" the
\* count without the percentage
PartialStatsLine(line, cut) ==
    CASE cut = "label" -> StatsLine("partial", <<>>, <<>>)
      [] cut = "value" -> StatsLine(line.kind, <<>>, <<>>)
      [] cut = "digit" -> StatsLine(line.kind, Take(line.n, 1), <<>>)
      [] OTHER -> StatsLine(line.kind, line.n, <<>>)

\* the largest total of the snapshots update_stats is called with here
MaxTotal == 12

\* the statistics files whose prefixes are read: what update_stats writes for
\* every split of a total into normal and attacks, and the file of an earlier run
ValidStats ==
    UNION {{StatsText(total, normal, total - normal) : normal \in 0..total} :
              total \in 0..MaxTotal}
      \cup {OldStats.lines}

StatsCuts == {"label", "value", "digit", "count"}

\* the prefixes of a valid file: k whole lines and possibly a part of the next
StatsPrefixes(text) ==
    UNION {{File(SubSeq(text, 1, k))} \cup
           (IF k < Len(text)
              THEN {File(SubSeq(text, 1, k) \o <<PartialStatsLine(text[k + 1], cut)>>) :
                       cut \in StatsCuts}
              ELSE {}) : k \in 0..Len(text)}

\* the contents of the statistics file a reader can find
StatsFiles == {Absent} \cup UNION {StatsPrefixes(text) : text \in ValidStats}

\* the frames handed to the feature extraction: every protocol number of the
\* IP header, with the layers scapy dissects for it
MaxProto == 255

FrameLens == {42, 60, 1500}

Probe(proto, len) ==
    [id |-> "probe", has_ip |-> TRUE, proto |-> proto, src |-> "10.0.0.5",
     dst |-> "192.168.1.10",
     l4 |-> IF proto = 6 THEN "TCP" ELSE IF proto = 17 THEN "UDP" ELSE "none",
     sport |-> 443, dport |-> 80, len |-> len]

Call(fn, limit, proto, len) == [fn |-> fn, limit |-> limit, proto |-> proto, len |-> len]

\* one call of a reader or of the feature extraction on inputs drawn here
InitCalls ==
    /\ prog = "api" /\ pc = "call" /\ mode = "none" /\ HAS_SCAPY = TRUE
    /\ model = FALSE /\ le_proto = FALSE
    /\ packet_count = 0 /\ normal_count = 0 /\ attack_count = 0
    /\ protocol_stats = [k \in ProtoKeys |-> 0]
    /\ ip_stats = [k \in IpKeys |-> 0]
    /\ stats_writes = <<>> /\ pcap_dir = {} /\ processed_files = {}
    /\ cur_file = "none"
    /\ last = Did("none", NoPacket.id, "none", "none")
    /\ result = Pending
    /\ \/ /\ \E limit \in 0..MaxLimit : arg = Call("parse_alerts", limit, 0, 0)
          /\ alerts_log \in AlertLogs /\ stats_file = Absent
       \/ /\ arg = Call("parse_stats", 0, 0, 0)
          /\ alerts_log = Absent /\ stats_file \in StatsFiles
       \/ /\ \E proto \in 0..MaxProto, len \in FrameLens :
                arg = Call("extract_features_from_packet", 0, proto, len)
          /\ alerts_log = Absent /\ stats_file = Absent

\* the requests a client sends one after the other
CallOrder(verdict) == IF verdict = "none" THEN "first" ELSE "second"

\* a reader that empties the log it has read
ParseAlertsDraining ==
    /\ arg.fn = "parse_alerts" /\ last.verdict # "second"
    /\ result' = parse_alerts(alerts_log, arg.limit)
    /\ alerts_log' = IF alerts_log.exists THEN File(<<>>) ELSE alerts_log
    /\ last' = Did("parse_alerts", NoPacket.id, "none", CallOrder(last.verdict))
    /\ UNCHANGED <<prog, pc, mode, HAS_SCAPY, model, le_proto, packet_count,
                   normal_count, attack_count, protocol_stats, ip_stats,
                   stats_file, stats_writes, pcap_dir, processed_files, cur_file,
                   arg>>

\* GET /api/alerts and /api/alerts/<limit>, asked once and then once more:
\* the log is opened with 'r' and only read
ParseAlerts ==
    /\ arg.fn = "parse_alerts" /\ last.verdict # "second"
    /\ result' = parse_alerts(alerts_log, arg.limit)
    /\ last' = Did("parse_alerts", NoPacket.id, "none", CallOrder(last.verdict))
    /\ UNCHANGED <<prog, pc, mode, HAS_SCAPY, model, le_proto, packet_count,
                   normal_count, attack_count, protocol_stats, ip_stats, alerts_log,
                   stats_file, stats_writes, pcap_dir, processed_files, cur_file,
                   arg>>

\* GET /api/stats, asked once and then once more
ParseStats ==
    /\ arg.fn = "parse_stats" /\ last.verdict # "second"
    /\ result' = parse_stats(stats_file)
    /\ last' = Did("parse_stats", NoPacket.id, "none", CallOrder(last.verdict))
    /\ UNCHANGED <<prog, pc, mode, HAS_SCAPY, model, le_proto, packet_count,
                   normal_count, attack_count, protocol_stats, ip_stats, alerts_log,
                   stats_file, stats_writes, pcap_dir, processed_files, cur_file,
                   arg>>

\* extract_features_from_packet(packet) on a frame with an IP layer
ExtractFeatures ==
    /\ arg.fn = "extract_features_from_packet" /\ ~result.done
    /\ result' = [done |-> TRUE,
                  features |-> extract_features_from_packet(Probe(arg.proto, arg.len))]
    /\ UNCHANGED <<prog, pc, mode, HAS_SCAPY, model, le_proto, packet_count,
                   normal_count, attack_count, protocol_stats, ip_stats, alerts_log,
                   stats_file, stats_writes, pcap_dir, processed_files, cur_file,
                   last, arg>>

NextCalls ==
    \/ ParseAlerts
    \/ ParseStats
    \/ ExtractFeatures

SpecCalls == InitCalls /\ [][NextCalls]_vars

(***************************************************************************)
(* Helpers of the properties.                                              *)
(***************************************************************************)
IsPrefix(s, t) == Len(s) <= Len(t) /\ SubSeq(t, 1, Len(s)) = s

LastOf(s) == s[Len(s)]

\* the step is a call of process_packet (one frame of the running loop): every
\* other operation records its own name, and FileAppears changes pcap_dir only
FrameStep == last'.op = "process_packet" /\ pcap_dir' = pcap_dir

\* the step is a call of process_packet on a captured frame
RealFrameStep == FrameStep /\ last'.packet # NoPacket.id

\* the frames with an IP layer whose protocol the encoder does not know
UnknownProtoIds == {f.id : f \in {g \in Frames : g.has_ip /\ ProtoName(g.proto) \notin Classes}}

counters == <<packet_count, normal_count, attack_count>>

(***************************************************************************)
(* C1: nids_backend.process_packet with a loaded model skips a frame whose *)
(* protocol name is not in the encoder's classes: the counters, both       *)
(* histograms, the alert log and the stats file are unchanged by the call. *)
(* The code falls through to the simulated detection and counts the frame. *)
(***************************************************************************)
C1_UnknownProtocolSkipped ==
    [][(prog = "nids_backend" /\ model /\ le_proto /\ RealFrameStep
          /\ last'.packet \in UnknownProtoIds)
        => UNCHANGED <<packet_count, normal_count, attack_count, protocol_stats,
                       ip_stats, alerts_log, stats_file>>]_vars

(***************************************************************************)
(* C2: when the classifier's predict raises on a frame (nids_backend live  *)
(* path, process_pcap replay loop), the frame changes no counter, appends  *)
(* no alert, and the loop goes on with the following frames.               *)
(* nids_backend counts the frame by the coin flip; process_pcap_file       *)
(* leaves its loop.                                                        *)
(***************************************************************************)
C2_PredictErrorDropsFrame ==
    [][(prog \in {"nids_backend", "process_pcap"} /\ FrameStep /\ last'.pred = "raise")
        => (UNCHANGED <<packet_count, normal_count, attack_count, alerts_log>>
            /\ pc' = pc)]_vars

(***************************************************************************)
(* C3: in every mode of nids_backend.main, after a user interrupt stopped  *)
(* the running loop the stats file holds the in-memory counters (one final *)
(* unconditional update_stats). run_simulation_mode catches the interrupt  *)
(* itself, so main's handler and its update_stats are not reached.         *)
(***************************************************************************)
C3_InterruptFlushes ==
    (prog = "nids_backend" /\ last.op = "interrupt")
    => (stats_file.exists
        /\ stats_file.lines = StatsText(packet_count, normal_count, attack_count))

(***************************************************************************)
(* C4: within one process lifetime the alert log is append-only: after     *)
(* every step the previous content is a prefix of the new content          *)
(* (nids_backend loop; process_pcap directory watch across several files,  *)
(* taken from the moment the process has replayed a first file).           *)
(* process_pcap_file opens the log with 'w' for every capture file.        *)
(***************************************************************************)
C4_AlertLogAppendOnly ==
    [][((prog = "nids_backend" /\ pc # "start")
         \/ (prog = "process_pcap" /\ processed_files # {}))
        => IsPrefix(alerts_log.lines, alerts_log'.lines)]_vars

(***************************************************************************)
(* C5: the totals of the snapshots one process writes never decrease       *)
(* (nids_backend; process_pcap directory watch over several files).        *)
(* process_pcap_file restarts its counters at 0 for every capture file.    *)
(***************************************************************************)
C5_SnapshotTotalsMonotonic ==
    prog \in {"nids_backend", "process_pcap"}
    => \A i \in 1..(Len(stats_writes) - 1) : stats_writes[i] <= stats_writes[i + 1]

C7_AlertCarriesFrame ==
    [][(prog = "nids_backend" /\ RealFrameStep)
        => LET packet == FrameById(last'.packet)
           IN  IF attack_count' = attack_count + 1
                 THEN alerts_log'.lines = alerts_log.lines \o
                        << [kind |-> "alert",
                            src_ip |-> packet.src,
                            src_port |-> IF packet.l4 \in {"TCP", "UDP"}
                                           THEN Str(packet.sport) ELSE NA,
                            dst_ip |-> packet.dst,
                            dst_port |-> IF packet.l4 \in {"TCP", "UDP"}
                                           THEN Str(packet.dport) ELSE NA,
                            protocol |-> Upper(ProtoName(packet.proto)),
                            size |-> Str(packet.len)] >>
                 ELSE alerts_log' = alerts_log]_vars

(***************************************************************************)
(* C8: when live mode is requested and the capture is unavailable (no      *)
(* scapy) or fails (run_live_capture returns False), nids_backend does not *)
(* exit: it enters simulated mode with the counters, histograms and files  *)
(* as they were; the process ends only by an interrupt or by the capture   *)
(* ending normally.                                                        *)
(***************************************************************************)
C8_LiveFallsBackToSimulation ==
    [][(prog = "nids_backend" /\ mode = "live")
        => /\ (pc = "start" /\ pc' # pc /\ ~HAS_SCAPY) => pc' = "sim"
           /\ last'.op = "capture_failed"
                => (pc' = "sim"
                    /\ UNCHANGED <<packet_count, normal_count, attack_count,
                                   protocol_stats, ip_stats, alerts_log, stats_file>>)
           /\ (pc' \in {"exited", "stopped"} /\ pc' # pc)
                => last'.op \in {"interrupt", "capture_ended"}]_vars

\* after a failed live capture the simulated loop counted up to a snapshot
C8_Witness ==
    /\ prog = "nids_backend" /\ mode = "live" /\ HAS_SCAPY /\ pc = "sim"
    /\ last.op = "process_packet" /\ last.packet = NoPacket.id
    /\ packet_count = 10 /\ LastOf(stats_writes) = 10
    /\ \E i \in 1..Len(alerts_log.lines) :
          alerts_log.lines[i].kind = "alert" /\ alerts_log.lines[i].src_port = NA

(***************************************************************************)
(* C9: every snapshot write with total_packets == 0 completes without an   *)
(* error and renders both percentages as 0.00%, in every ingestion         *)
(* variant. live_nids.update_stats divides by total without a guard.       *)
(***************************************************************************)
C9_ZeroTotalSnapshot ==
    (stats_writes # <<>> /\ LastOf(stats_writes) = 0)
    => (pc # "crashed" /\ stats_file = File(StatsText(0, 0, 0)))

(***************************************************************************)
(* C10: initialize_files of nids_backend creates alerts.log with exactly   *)
(* the banner line and a blank line when it does not exist and leaves an   *)
(* existing alerts.log unchanged; the stats file is written with a zero    *)
(* snapshot only when it does not exist.                                   *)
(***************************************************************************)
C10_InitializeFiles ==
    [][(prog = "nids_backend" /\ pc = "start" /\ pc' # pc)
        => /\ IF alerts_log.exists
                 THEN alerts_log' = alerts_log
                 ELSE alerts_log' = File(<<BannerLine, BlankLine>>)
           /\ IF stats_file.exists
                 THEN stats_file' = stats_file /\ stats_writes' = stats_writes
                 ELSE stats_file' = File(StatsText(0, 0, 0))]_vars

\* main started with an alert log of an earlier run and no stats file
C10_Witness ==
    /\ prog = "nids_backend" /\ last.op = "main"
    /\ alerts_log = OldLog
    /\ stats_file = File(StatsText(0, 0, 0))


\* process_pcap_file has returned after reading a capture file: the loop ran
\* past its last packet, or a packet ended it
ReplayOver ==
    /\ prog = "process_pcap" /\ pc \in {"stopped", "watch"}
    /\ last.op = "process_packet" \/ last.verdict = "finished"

\* C11: a replay counts exactly the frames that have an IP header and a known
\* protocol, one by one without leaving the loop, and when process_pcap_file
\* has returned the statistics file holds the final counters, whose normal
\* and attack counts add up to the total.
C11_ReplayEndsFlushed ==
    /\ [][(prog = "process_pcap" /\ FrameStep) =>
            /\ pc' = "replay"
            /\ packet_count' = packet_count +
                  (IF extract_features_ok(FrameById(last'.packet)) THEN 1 ELSE 0)]_vars
    /\ [](ReplayOver =>
            /\ stats_writes # <<>>
            /\ LastOf(stats_writes) = packet_count
            /\ stats_file = File(StatsText(packet_count, normal_count, attack_count))
            /\ packet_count = normal_count + attack_count)


\* C12: in continuous mode the set of processed paths only grows, and a path
\* in it is never handed to process_pcap_file again, however often the
\* directory is scanned.
C12_ProcessedOnce ==
    [][(prog = "process_pcap" /\ mode = "continuous") =>
         /\ processed_files \subseteq processed_files'
         /\ (/\ pc = "watch" /\ pcap_dir' = pcap_dir
             /\ last'.op = "process_pcap_file"
             /\ last'.verdict \in {"opened", "error"})
               => last'.packet \notin processed_files]_vars

\* one file was processed to its end and the second one was handed over
\* while the first stayed in the directory
C12_Witness ==
    /\ prog = "process_pcap" /\ mode = "continuous"
    /\ pcap_dir = PcapFiles
    /\ Cardinality(processed_files) = 1
    /\ pc = "replay" /\ cur_file \notin processed_files


\* C13: when a write of the alert log or of the statistics file fails while
\* nids_backend processes a frame, in live capture and in simulation alike,
\* the loop stays in its mode with the frame counted and the counters
\* consistent, and every later rewrite of the statistics file holds the
\* counters of that moment.
C13_WriteFailureKeepsLoop ==
    [][prog = "nids_backend" =>
         /\ (FrameStep /\ last'.verdict = "io_error") =>
               /\ pc' = pc
               /\ packet_count' = packet_count + 1
               /\ packet_count' = normal_count' + attack_count'
         /\ (FrameStep /\ stats_writes' # stats_writes) =>
               stats_file' = File(StatsText(packet_count', normal_count', attack_count'))]_vars

\* the alert lines nids_backend appended in this run
WrittenAlerts ==
    Len(SelectSeq(alerts_log.lines, LAMBDA l : l.kind = "alert" /\ l # OldAlert))

\* C14: when nids_backend has shut down after a user interrupt, the total
\* equals the normal plus the attack count and every counted attack has its
\* line in the alert log: no frame is left half processed.
C14_InterruptBetweenFrames ==
    (/\ prog = "nids_backend" /\ pc \in {"exited", "stopped"}
     /\ last.op = "interrupt" \/ last.verdict = "interrupted")
      => /\ packet_count = normal_count + attack_count
         /\ WrittenAlerts = attack_count


\* the line holds every field of an alert: '[ALERT]', both hosts and ports,
\* the protocol and the size
FullShape(line) ==
    /\ line.kind = "alert"
    /\ line.src_ip # "" /\ line.src_port # <<>>
    /\ line.dst_ip # "" /\ line.dst_port # <<>>
    /\ line.protocol # "" /\ line.size # <<>>

\* C15: whatever the alert log holds, a last line cut short by a write under
\* way included, parse_alerts returns no error and every record it returns
\* comes from a line that holds all the fields of an alert; a line that
\* lacks a field gives no record.
C15_OnlyWellShapedLines ==
    (arg.fn = "parse_alerts" /\ result.done) =>
      /\ ~result.error
      /\ Len(result.alerts) <= Len(SelectSeq(alerts_log.lines, FullShape))
      /\ \A i \in 1..Len(result.alerts) :
            \E j \in 1..Len(alerts_log.lines) :
               /\ FullShape(alerts_log.lines[j])
               /\ result.alerts[i] = parse_alert_line(alerts_log.lines[j])


\* the positions of the lines of the alert log that contain '[ALERT]'
AlertPositions == {i \in 1..Len(alerts_log.lines) : alerts_log.lines[i].kind = "alert"}

\* C16: with n alert lines in the log and a limit >= 0, parse_alerts returns
\* min(limit, n) records and its k-th record is read from the k-th alert line
\* counted from the end of the file, whether the file starts with the header
\* or with an alert line.
C16_NewestFirstUpToLimit ==
    (arg.fn = "parse_alerts" /\ result.done) =>
      LET n == Cardinality(AlertPositions)
          m == IF arg.limit < n THEN arg.limit ELSE n
      IN  /\ ~result.error
          /\ Len(result.alerts) = m
          /\ \A k \in 1..m :
                \E i \in AlertPositions :
                   /\ Cardinality({j \in AlertPositions : j > i}) = k - 1
                   /\ result.alerts[k] = parse_alert_line(alerts_log.lines[i])

\* a log without header that starts with an alert line and holds three alert
\* lines was read with limit 2, and the two records returned differ
C16_Witness ==
    /\ arg.fn = "parse_alerts" /\ result.done /\ arg.limit = 2
    /\ alerts_log.exists /\ 1 \in AlertPositions
    /\ Cardinality(AlertPositions) = 3
    /\ Len(result.alerts) = 2 /\ result.alerts[1] # result.alerts[2]


\* the statistics file holds a line with this label
HasStatsLine(kind) ==
    \E i \in 1..Len(stats_file.lines) : stats_file.lines[i].kind = kind

\* C17: parse_stats returns the all-zero defaults with last_updated 'N/A' when
\* the statistics file is missing; on every prefix of a valid file it returns
\* no error, and each field whose line is not in the file keeps its default.
C17_StatsPrefixTolerated ==
    (arg.fn = "parse_stats" /\ result.done) =>
      /\ ~result.error
      /\ ~stats_file.exists => result = StatsDefaults
      /\ ~HasStatsLine("total") => result.total_packets = 0
      /\ ~HasStatsLine("normal") =>
            result.normal_traffic = 0 /\ result.normal_percentage = 0
      /\ ~HasStatsLine("attacks") =>
            result.attacks_detected = 0 /\ result.attack_percentage = 0
      /\ ~HasStatsLine("updated") => result.last_updated = NA


C19_PredictNeverRaises ==
    /\ [](prog = "nids_backend" =>
            \A packet \in {f \in Frames : f.has_ip}, outcome \in PredictOutcomes :
               predict_with_model(extract_features_from_packet(packet), outcome)
                  \in {"0", "1", None})
    /\ [][(prog = "nids_backend" /\ RealFrameStep /\ FrameById(last'.packet).has_ip) =>
            /\ pc' = pc
            /\ last'.pred = "1" => last'.verdict = "attack"
            /\ last'.pred = "0" => last'.verdict = "normal"
            /\ last'.pred \in {"raise", "none"} =>
                  last'.verdict \in {"sim_attack", "sim_normal"}]_vars

\* model.predict raised on a captured frame and the capture is still running
C19_Witness ==
    /\ prog = "nids_backend" /\ pc = "live" /\ model /\ le_proto
    /\ last.op = "process_packet" /\ last.pred = "raise"


\* C20: the features of a frame with an IP header name protocol 1 'icmp',
\* 6 'tcp', 17 'udp' and every other protocol number 'other'; the secondary
\* byte count is 0 and the byte length is the length of the frame.
C20_FeatureMapping ==
    (arg.fn = "extract_features_from_packet" /\ result.done) =>
      /\ arg.proto = 1 => result.features.protocol_name = "icmp"
      /\ arg.proto = 6 => result.features.protocol_name = "tcp"
      /\ arg.proto = 17 => result.features.protocol_name = "udp"
      /\ arg.proto \notin {1, 6, 17} => result.features.protocol_name = "other"
      /\ result.features.dst_bytes = 0
      /\ result.features.src_bytes = arg.len

\* the features of a 1500-byte frame of protocol 47 (GRE) were extracted
C20_Witness ==
    /\ arg.fn = "extract_features_from_packet" /\ result.done
    /\ arg.proto = 47 /\ arg.len = 1500
    /\ result.features.protocol_name = "other"


C22_SimulatedFrame ==
    [][(prog = "nids_backend" /\ FrameStep /\ last'.packet = NoPacket.id) =>
         /\ last'.pred = "none"
         /\ last'.verdict \in {"sim_attack", "sim_normal"}
         /\ packet_count' = packet_count + 1
         /\ IF last'.verdict = "sim_attack"
              THEN /\ attack_count' = attack_count + 1 /\ normal_count' = normal_count
                   /\ Len(alerts_log'.lines) = Len(alerts_log.lines) + 1
                   /\ LET line == LastOf(alerts_log'.lines)
                      IN  /\ line.kind = "alert"
                          /\ line.src_ip \in sample_ips /\ line.dst_ip \in sample_ips
                          /\ Val(line.src_port) \in sample_ports
                          /\ Val(line.dst_port) \in sample_ports
                          /\ line.protocol \in protocols
                          /\ Val(line.size) \in SimSizeMin..SimSizeMax
              ELSE /\ normal_count' = normal_count + 1 /\ attack_count' = attack_count
                   /\ alerts_log' = alerts_log]_vars

\* with a model loaded, a simulated frame was logged as an attack
C22_Witness ==
    /\ prog = "nids_backend" /\ pc = "sim" /\ model /\ le_proto
    /\ last.op = "process_packet" /\ last.packet = NoPacket.id
    /\ last.verdict = "sim_attack"
    /\ WrittenAlerts = 1


\* C23: in all four ingestion programs, between two frames the total equals
\* the normal plus the attack count and none of the three is negative; a
\* frame that is counted adds 1 to the total and 1 to exactly one of the
\* other two, a frame that is dropped changes none of them.
C23_CountersAddUp ==
    /\ [](prog \in Programs =>
            /\ packet_count = normal_count + attack_count
            /\ packet_count >= 0 /\ normal_count >= 0 /\ attack_count >= 0)
    /\ [][(prog \in Programs /\ FrameStep) =>
            IF last'.verdict = "dropped"
              THEN counters' = counters
              ELSE /\ packet_count' = packet_count + 1
                   /\ \/ normal_count' = normal_count + 1 /\ attack_count' = attack_count
                      \/ attack_count' = attack_count + 1 /\ normal_count' = normal_count]_vars

\* the replay of a capture file stands after three counted frames, one of
\* them an attack
C23_Witness ==
    /\ prog = "process_pcap" /\ pc = "replay"
    /\ packet_count = 3 /\ normal_count = 2 /\ attack_count = 1


RECURSIVE SumOver(_, _)
\* the sum of the counts a histogram holds under the keys
SumOver(hist, keys) ==
    IF keys = {} THEN 0
    ELSE LET k == CHOOSE x \in keys : TRUE
         IN  hist[k] + SumOver(hist, keys \ {k})

LoggedAfterHeader ==
    /\ alerts_log.exists /\ IsPrefix(Header, alerts_log.lines)
    /\ \A i \in (Len(Header) + 1)..Len(alerts_log.lines) : alerts_log.lines[i] \in LinePool

\* C25: after initialize_files wrote the header and log_alert appended n
\* lines, of any protocol and with any port text the logger emits,
\* parse_alerts with a limit >= n returns n records, and its k-th record holds
\* the source and destination address and port, the protocol and the size of
\* the k-th line counted from the end of the log.
C25_LoggerReaderRoundTrip ==
    (/\ arg.fn = "parse_alerts" /\ result.done /\ LoggedAfterHeader
     /\ arg.limit >= Len(alerts_log.lines) - Len(Header))
      => LET n == Len(alerts_log.lines) - Len(Header)
         IN  /\ ~result.error
             /\ Len(result.alerts) = n
             /\ \A k \in 1..n :
                   LET line == alerts_log.lines[Len(alerts_log.lines) + 1 - k]
                       alert == result.alerts[k]
                   IN  /\ alert.src_ip = line.src_ip /\ alert.src_port = line.src_port
                       /\ alert.dst_ip = line.dst_ip /\ alert.dst_port = line.dst_port
                       /\ alert.protocol = line.protocol
                       /\ alert.size = Val(line.size)


\* C26: for every total >= 0 split into normal and attacks, parse_stats on
\* the file update_stats(total, normal, attacks) has written returns
\* total_packets = total, normal_traffic = normal, attacks_detected = attacks
\* and a last_updated that is not 'N/A'.
C26_StatsRoundTrip ==
    (arg.fn = "parse_stats" /\ result.done) =>
      \A total \in 0..MaxTotal : \A normal \in 0..total :
         stats_file = File(StatsText(total, normal, total - normal)) =>
           /\ ~result.error
           /\ result.total_packets = total
           /\ result.normal_traffic = normal
           /\ result.attacks_detected = total - normal
           /\ result.last_updated # NA

\* the snapshot of 12 frames, 5 of them attacks, was written whole and read back
C26_Witness ==
    /\ arg.fn = "parse_stats" /\ result.done
    /\ stats_file = File(StatsText(12, 7, 5))
    /\ result.total_packets = 12 /\ result.normal_traffic = 7
    /\ result.attacks_detected = 5 /\ result.last_updated = Timestamp


\* initialize_files found no statistics file and wrote the all-zero snapshot:
\* the first write of the run has total 0 (a periodic write has a total >= 10)
StatsAbsentAtStart == stats_writes # <<>> /\ stats_writes[1] = 0

\* the total the statistics file shows
SnapshotTotal == Val(stats_file.lines[2].n)

SnapshotAttacks == Val(stats_file.lines[4].n)

NoIpIds == {f.id : f \in {g \in Frames : ~g.has_ip}}

\* C29: nids_backend.process_packet drops a frame without IP header, with or
\* without a loaded model: the call counts nothing and leaves the
\* histograms, the alert log and the statistics file as they were.
C29_NoIpFrameDropped ==
    [][(prog = "nids_backend" /\ FrameStep /\ last'.packet \in NoIpIds) =>
         /\ last'.verdict = "dropped" /\ last'.pred = "none"
         /\ counters' = counters
         /\ protocol_stats' = protocol_stats /\ ip_stats' = ip_stats
         /\ alerts_log' = alerts_log /\ stats_file' = stats_file
         /\ stats_writes' = stats_writes]_vars

\* with the model loaded and frames already counted, the capture has just
\* handed over a frame without IP layer
C29_Witness ==
    /\ prog = "nids_backend" /\ pc = "live" /\ model /\ le_proto
    /\ last.op = "process_packet" /\ last.packet \in NoIpIds
    /\ last.verdict = "dropped"
    /\ packet_count = 9 /\ attack_count = 1


\* C30: in the continuous directory-watch loop, unless the user interrupts,
\* every capture file present in the watched directory is eventually handed
\* to process_pcap_file and marked processed, also after the processing of
\* another file ended with an error; and a file is marked only after it was
\* handed over.
C30_EveryFileEventuallyProcessed ==
    /\ \A f \in PcapFiles :
          (f \in pcap_dir /\ pc \in {"watch", "replay"})
             ~> (f \in processed_files \/ pc = "exited")
    /\ [][\A f \in processed_files' \ processed_files :
             \/ cur_file = f
             \/ last' = Did("process_pcap_file", f, "none", "error")]_vars

\* both files are marked processed: the first wrote the snapshot of its tenth
\* frame and then ended with an error (no final snapshot), the second was
\* handed over after it and ran to its end
C30_Witness ==
    /\ prog = "process_pcap" /\ mode = "continuous" /\ pc = "watch"
    /\ processed_files = PcapFiles
    /\ stats_writes = <<10, 0>>
    /\ last = Did("process_pcap_file", NoPacket.id, "none", "finished")

====
